---- MODULE Spec2Model ----
(***************************************************************************)
(* A model of zk-cds (src/src/lib.rs): a contact-discovery lookup in which *)
(* a Client asks a Server for the user ID enrolled under a phone number.   *)
(*                                                                         *)
(* The curve is a scaled-down short Weierstrass curve of prime order,      *)
(*     y^2 = x^3 + 7x + 7  over F_13,  11 points,                          *)
(* standing in for NIST P-256; the group law, the scalar field, the SEC1   *)
(* encodings and the try-and-increment encoding are computed on it the way *)
(* the p256 crate computes them on P-256.  A coordinate is FieldLen bytes  *)
(* of one bit each (P-256: 32 bytes of 8 bits), a user ID is UuidLen bytes *)
(* (16), a SHA-256 digest is HashLen bytes (32) and a prefix PrefixLen     *)
(* bytes (8).  SHA-256 and hash-to-curve are fixed tables over the phone   *)
(* numbers of the model; hash-to-curve is injective and never the          *)
(* identity, as it is for P-256 up to negligible probability.              *)
(***************************************************************************)
EXTENDS Integers, Sequences, FiniteSets, TLC

\* ------------------------------------------------------------------------
\* Option / CtOption values (Some(v), None).
None == [some |-> FALSE]
Some(v) == [some |-> TRUE, val |-> v]

\* ------------------------------------------------------------------------
\* The curve (p256::NistP256, scaled down).
FieldModulus == 13
CurveA == 7
CurveB == 7
GroupOrder == 11

ByteRadix == 2
FieldLen == 4
UuidLen == 2
HashLen == 4
PrefixLen == 2

FieldElements == 0 .. (FieldModulus - 1)
Scalars == 0 .. (GroupOrder - 1)

Identity == <<>>

OnCurve(x, y) ==
    (y * y) % FieldModulus = (x * x * x + CurveA * x + CurveB) % FieldModulus

AffinePoints ==
    {Identity} \cup {xy \in FieldElements \X FieldElements : OnCurve(xy[1], xy[2])}

FieldInv(a) == CHOOSE b \in FieldElements : (a * b) % FieldModulus = 1

FieldNeg(a) == (FieldModulus - a) % FieldModulus

PointNeg(P) == IF P = Identity THEN Identity ELSE <<P[1], FieldNeg(P[2])>>

\* The group law (chord and tangent).
PointAddDef(P, Q) ==
    IF P = Identity THEN Q
    ELSE IF Q = Identity THEN P
    ELSE IF P[1] = Q[1] /\ (P[2] + Q[2]) % FieldModulus = 0 THEN Identity
    ELSE LET l == IF P = Q
                  THEN ((3 * P[1] * P[1] + CurveA) * FieldInv((2 * P[2]) % FieldModulus))
                           % FieldModulus
                  ELSE (((Q[2] - P[2]) % FieldModulus)
                           * FieldInv((Q[1] - P[1]) % FieldModulus)) % FieldModulus
             x == (l * l - P[1] - Q[1]) % FieldModulus
             y == (l * (P[1] - x) - P[2]) % FieldModulus
         IN <<x, y>>

\* The group law as a table.  `@@ <<>>` adds nothing to the function; it makes
\* TLC hold the function as a table and not compute each value anew.
PointAddTable == [P \in AffinePoints, Q \in AffinePoints |-> PointAddDef(P, Q)] @@ <<>>

PointAdd(P, Q) == PointAddTable[P, Q]

RECURSIVE ScalarMulDef(_, _)
ScalarMulDef(P, d) == IF d = 0 THEN Identity ELSE PointAdd(P, ScalarMulDef(P, d - 1))

PointMulTable == [P \in AffinePoints, d \in Scalars |-> ScalarMulDef(P, d)] @@ <<>>

\* `point * scalar`
PointMul(P, d) == PointMulTable[P, d]

\* `scalar * scalar` in the scalar field.
ScalarMul(a, b) == (a * b) % GroupOrder

\* Scalar::invert: None for zero.
ScalarInvert(d) ==
    IF d = 0 THEN None
    ELSE Some(CHOOSE e \in Scalars : (d * e) % GroupOrder = 1)

\* ------------------------------------------------------------------------
\* Bytes.
Bytes == 0 .. (ByteRadix - 1)

RECURSIVE Pow(_, _)
Pow(b, n) == IF n = 0 THEN 1 ELSE b * Pow(b, n - 1)

\* Big-endian bytes of v, len bytes long.
ToBeBytes(v, len) == [i \in 1 .. len |-> (v \div Pow(ByteRadix, len - i)) % ByteRadix]

\* Little-endian bytes of v, len bytes long (u128::to_le_bytes).
ToLeBytes(v, len) == [i \in 1 .. len |-> (v \div Pow(ByteRadix, i - 1)) % ByteRadix]

RECURSIVE FromBeBytes(_)
FromBeBytes(bs) ==
    IF bs = <<>> THEN 0
    ELSE FromBeBytes(SubSeq(bs, 1, Len(bs) - 1)) * ByteRadix + bs[Len(bs)]

ByteStrings(len) == [1 .. len -> Bytes]

\* ------------------------------------------------------------------------
\* SEC1 encodings (sec1::EncodedPoint, sec1::Tag).
TagIdentity == 0
TagCompressedEvenY == 2
TagCompressedOddY == 3
TagCompact == 5

\* EncodedPoint::from_bytes: the tag must be known and the length must be the
\* one the tag asks for.
EncodedPointFromBytes(buf) ==
    IF buf = <<>> THEN None
    ELSE IF buf[1] = TagIdentity
         THEN (IF Len(buf) = 1 THEN Some(buf) ELSE None)
    ELSE IF buf[1] \in {TagCompressedEvenY, TagCompressedOddY, TagCompact}
         THEN (IF Len(buf) = 1 + FieldLen THEN Some(buf) ELSE None)
    ELSE None

\* Every EncodedPoint value the model exchanges: the identity and the
\* compressed forms, whether or not they name a point of the curve.
EncodedPoints ==
    {<<TagIdentity>>} \cup
    {<<t>> \o x : t \in {TagCompressedEvenY, TagCompressedOddY}, x \in ByteStrings(FieldLen)}

\* AffinePoint::to_encoded_point(true) and ProjectivePoint::to_encoded_point(true).
ToEncodedPoint(P) ==
    IF P = Identity THEN <<TagIdentity>>
    ELSE <<IF P[2] % 2 = 1 THEN TagCompressedOddY ELSE TagCompressedEvenY>>
             \o ToBeBytes(P[1], FieldLen)

\* AffinePoint::decompress: the point with that x whose y has the given parity.
Decompress(xbytes, yIsOdd) ==
    LET x == FromBeBytes(xbytes)
        ys == IF x >= FieldModulus THEN {}
              ELSE {y \in FieldElements : OnCurve(x, y) /\ (y % 2 = 1) = yIsOdd}
    IN IF ys = {} THEN None ELSE Some(<<x, CHOOSE y \in ys : TRUE>>)

\* AffinePoint::to_compact: of P and -P the one with the smaller y.
ToCompact(P) ==
    IF P = Identity THEN P
    ELSE IF P[2] > FieldNeg(P[2]) THEN PointNeg(P) ELSE P

\* AffinePoint::decompact.
Decompact(xbytes) ==
    LET r == Decompress(xbytes, FALSE)
    IN IF r.some THEN Some(ToCompact(r.val)) ELSE None

\* AffinePoint::from_encoded_point.
FromEncodedPointDef(e) ==
    IF e[1] = TagIdentity THEN Some(Identity)
    ELSE IF e[1] = TagCompact THEN Decompact(SubSeq(e, 2, Len(e)))
    ELSE Decompress(SubSeq(e, 2, Len(e)), e[1] = TagCompressedOddY)

FromEncodedPointTable == [e \in EncodedPoints |-> FromEncodedPointDef(e)] @@ <<>>

FromEncodedPoint(e) ==
    IF e \in EncodedPoints THEN FromEncodedPointTable[e] ELSE FromEncodedPointDef(e)

\* Uuid::from_slice: Ok exactly for a slice of UuidLen bytes.
UuidFromSlice(bs) == IF Len(bs) = UuidLen THEN Some(bs) ELSE None

Uuids == ByteStrings(UuidLen)


\* ------------------------------------------------------------------------
\* Hashing.
PhoneNumbers == {"123-456-7890", "123-8675309", "555-000-0000"}

\* sha2::Sha256 of a phone number, HashLen bytes.  "123-456-7890" and
\* "555-000-0000" agree on their first PrefixLen bytes; the digest of
\* "123-8675309" is not below GroupOrder - 1.
Sha256(phone_number) ==
    CASE phone_number = "123-456-7890" -> <<0, 1, 0, 1>>
      [] phone_number = "123-8675309" -> <<1, 1, 0, 0>>
      [] phone_number = "555-000-0000" -> <<0, 1, 1, 1>>

Digests == ByteStrings(HashLen)

\* `hash[..8]`
HashPrefix(hash) == SubSeq(hash, 1, PrefixLen)

Prefixes == ByteStrings(PrefixLen)

\* NistP256::hash_from_bytes::<ExpandMsgXmd<Sha256>>(&[msg], &[b"stupid-psi-tricks"])
HashToCurve(phone_number) ==
    CASE phone_number = "123-456-7890" -> <<3, 9>>
      [] phone_number = "123-8675309" -> <<12, 8>>
      [] phone_number = "555-000-0000" -> <<7, 10>>

\* Scalar::reduce_nonzero_bytes: reduce modulo n - 1, then add one.
ReduceNonzeroBytes(hash) == (FromBeBytes(hash) % (GroupOrder - 1)) + 1

\* ------------------------------------------------------------------------
\* encode_to_point: try and increment.
CounterLen == FieldLen - UuidLen
CounterLimit == Pow(ByteRadix, CounterLen)

\* The buffer with the counter ahead of the user ID.
EncodeBufCounterFirst(user_id, i) ==
    <<TagCompact>> \o ToLeBytes(i, CounterLen) \o user_id

\* `buf` at the i-th turn of the loop: the tag, the user ID, the counter.
EncodeBuf(user_id, i) ==
    <<TagCompact>> \o user_id \o ToLeBytes(i, CounterLen)

\* The point `buf` decodes to at the i-th turn, if it decodes to one.
EncodeTry(user_id, i) ==
    LET encoded == EncodedPointFromBytes(EncodeBuf(user_id, i))
    IN IF encoded.some THEN FromEncodedPoint(encoded.val) ELSE None

RECURSIVE EncodeLoop(_, _)
EncodeLoop(user_id, i) ==
    IF i >= CounterLimit THEN None
    ELSE LET p == EncodeTry(user_id, i)
         IN IF p.some THEN p ELSE EncodeLoop(user_id, i + 1)

encode_to_point_def(user_id) == EncodeLoop(user_id, 0).val

EncodeTable == [user_id \in Uuids |-> encode_to_point_def(user_id)]

encode_to_point(user_id) == EncodeTable[user_id]

\* ------------------------------------------------------------------------
\* Outcomes of an operation: it returns a value or it panics.
Ret(v) == [kind |-> "ret", val |-> v]
\* `cause` names the call that panicked: "from_encoded_point" (the unwrap of a
\* point that does not decode), "invert" (the unwrap of the inverse of zero)
\* or "slice" (a slice past the end).
Panic(cause) == [kind |-> "panic", cause |-> cause]

EmptyMap == <<>>

\* HashMap::insert: a row under a key already present replaces it.
MapInsert(m, k, v) == [x \in (DOMAIN m) \cup {k} |-> IF x = k THEN v ELSE m[x]]

\* ------------------------------------------------------------------------
\* Blinding and unblinding of an encoded point.

\* `AffinePoint::from_encoded_point(&e).unwrap() * secret`, encoded.
Blind(e, secret) ==
    LET decoded == FromEncodedPoint(e)
    IN IF ~decoded.some THEN Panic("from_encoded_point")
       ELSE Ret(ToEncodedPoint(PointMul(decoded.val, secret)))

\* Unblinding that multiplies by the secret and not by its inverse.
UnblindNoInvert(e, secret) ==
    LET decoded == FromEncodedPoint(e)
        inv == ScalarInvert(secret)
    IN IF ~decoded.some THEN Panic("from_encoded_point")
       ELSE IF ~inv.some THEN Panic("invert")
       ELSE Ret(ToEncodedPoint(PointMul(decoded.val, secret)))

\* `AffinePoint::from_encoded_point(&e).unwrap() * secret.invert().unwrap()`,
\* encoded.
Unblind(e, secret) ==
    LET decoded == FromEncodedPoint(e)
        inv == ScalarInvert(secret)
    IN IF ~decoded.some THEN Panic("from_encoded_point")
       ELSE IF ~inv.some THEN Panic("invert")
       ELSE Ret(ToEncodedPoint(PointMul(decoded.val, inv.val)))

\* ------------------------------------------------------------------------
\* Server.

\* One iteration of the loop of Server::new: the row of (phone_number, user_id).
ServerRow(secret, phone_number, user_id) ==
    LET hash == Sha256(phone_number)
        point == PointMul(HashToCurve(phone_number), secret)
        uid == PointMul(PointMul(encode_to_point(user_id), secret),
                        ReduceNonzeroBytes(hash))
    IN [prefix |-> HashPrefix(hash),
        phone_number |-> ToEncodedPoint(point),
        user_id |-> ToEncodedPoint(uid)]

\* `blinded.entry(prefix).or_insert(HashMap::new()).insert(key, value)`
InsertRow(blinded, row) ==
    LET bucket == IF row.prefix \in DOMAIN blinded THEN blinded[row.prefix] ELSE EmptyMap
    IN MapInsert(blinded, row.prefix, MapInsert(bucket, row.phone_number, row.user_id))

\* The lookup written `self.users.entry(prefix).or_default().clone()`: an
\* absent prefix gets an empty bucket in the table.
GetBucketEntry(users, prefix) ==
    [bucket |-> IF prefix \in DOMAIN users THEN users[prefix] ELSE EmptyMap,
     users |-> IF prefix \in DOMAIN users THEN users
               ELSE [x \in (DOMAIN users) \cup {prefix} |->
                       IF x = prefix THEN EmptyMap ELSE users[x]]]

\* The lookup written `self.users.remove(&prefix).unwrap_or_default()`: the
\* bucket is moved out of the table.
GetBucketRemove(users, prefix) ==
    [bucket |-> IF prefix \in DOMAIN users THEN users[prefix] ELSE EmptyMap,
     users |-> [x \in (DOMAIN users) \ {prefix} |-> users[x]]]

\* `self.users.get(&prefix).cloned().unwrap_or_default()`: the bucket handed
\* out and the table as it is afterwards.
GetBucket(users, prefix) ==
    [bucket |-> IF prefix \in DOMAIN users THEN users[prefix] ELSE EmptyMap,
     users |-> users]

\* Server::find_bucket
find_bucket(server, req) ==
    LET phone_number == Blind(req[2], server.secret)
    IN IF phone_number.kind = "panic" THEN phone_number
       ELSE Ret(<<phone_number.val, GetBucket(server.users, req[1]).bucket>>)

\* `Uuid::from_slice(&user_id.as_bytes()[1..17]).ok()`
UserIdBytes(user_id) ==
    IF Len(user_id) < 1 + UuidLen THEN Panic("slice")
    ELSE Ret(UuidFromSlice(SubSeq(user_id, 2, 1 + UuidLen)))

\* unblind_user_id taking the slice one byte early, `[0..16]`.
unblind_user_id_slice0(server, blinded_user_id) ==
    LET user_id == Unblind(blinded_user_id, server.secret)
    IN IF user_id.kind = "panic" THEN user_id
       ELSE IF Len(user_id.val) < UuidLen THEN Panic("slice")
       ELSE Ret(UuidFromSlice(SubSeq(user_id.val, 1, UuidLen)))

\* Server::unblind_user_id
unblind_user_id(server, blinded_user_id) ==
    LET user_id == Unblind(blinded_user_id, server.secret)
    IN IF user_id.kind = "panic" THEN user_id
       ELSE UserIdBytes(user_id.val)

\* ------------------------------------------------------------------------
\* Client.

\* request_phone_number sending the point of the phone number as it is.
request_phone_number_unblinded(client, phone_number) ==
    LET hash == Sha256(phone_number)
    IN <<HashPrefix(hash), ToEncodedPoint(HashToCurve(phone_number))>>

\* request_phone_number taking the prefix from the end of the hash,
\* `hash[24..]`.
request_phone_number_tail(client, phone_number) ==
    LET hash == Sha256(phone_number)
        point == PointMul(HashToCurve(phone_number), client.secret)
    IN <<SubSeq(hash, HashLen - PrefixLen + 1, HashLen), ToEncodedPoint(point)>>

\* Client::request_phone_number
request_phone_number(client, phone_number) ==
    LET hash == Sha256(phone_number)
        point == PointMul(HashToCurve(phone_number), client.secret)
    IN <<HashPrefix(hash), ToEncodedPoint(point)>>

\* process_bucket returning the value of the bucket as it is stored.
process_bucket_keep_h(client, resp, phone_number) ==
    LET blinded_point == Unblind(resp[1], client.secret)
        bucket == resp[2]
    IN IF blinded_point.kind = "panic" THEN blinded_point
       ELSE IF blinded_point.val \in DOMAIN bucket
       THEN Ret(Some(bucket[blinded_point.val]))
       ELSE Ret(None)

\* Client::process_bucket
process_bucket(client, resp, phone_number) ==
    LET blinded_point == Unblind(resp[1], client.secret)
        bucket == resp[2]
    IN IF blinded_point.kind = "panic" THEN blinded_point
       ELSE IF blinded_point.val \in DOMAIN bucket
       THEN LET h == ReduceNonzeroBytes(Sha256(phone_number))
                user_id == Unblind(bucket[blinded_point.val], h)
            IN IF user_id.kind = "panic" THEN user_id
               ELSE Ret(Some(user_id.val))
       ELSE Ret(None)

\* ------------------------------------------------------------------------
\* Bounds of the model.
MaxUsers == 2
MaxSecret == 2
NumCallers == 2
MaxServed == 2

\* A caller runs queries one after the other; the Client it constructs bears
\* its number, and a query may use the Client of any caller.
Callers == 1 .. NumCallers
ClientIds == Callers

\* The address books handed to Server::new: at most MaxUsers phone numbers,
\* each with a user ID.
AddressBooks ==
    UNION {[D -> Uuids] : D \in {E \in SUBSET PhoneNumbers : Cardinality(E) <= MaxUsers}}

\* Scalar::random: rejection sampling keeps the first draw below the group
\* order, zero included.  The model draws up to MaxSecret.
ScalarRandom == {d \in Scalars : d <= MaxSecret}

\* ------------------------------------------------------------------------
\* State.
VARIABLES
    users,     \* the address book given to Server::new
    pc,        \* "new" while Server::new runs, "serving" once it has returned
    pending,   \* the rows of the address book the loop of Server::new has yet to visit
    server,    \* Server { secret, users }
    clients,   \* per client id: Client { secret }, once Client::new has run
    queries,   \* per caller: the query it is running
    served,    \* the queries whose result the callers have taken, in order
    active,    \* the callers that take part
    law        \* a point being blinded and unblinded on its own

vars == <<users, pc, pending, server, clients, queries, served, active, law>>

NoClient == [made |-> FALSE]
Idle == [stage |-> "Idle"]

Stages == {"Idle", "Requested", "BucketReceived", "Matched", "Unmatched",
           "Resolved", "Panicked"}

InitWith(books, who) ==
    /\ users \in books
    /\ pc = "new"
    /\ pending = DOMAIN users
    /\ \E secret \in ScalarRandom : server = [secret |-> secret, users |-> EmptyMap]
    /\ clients = [c \in ClientIds |-> NoClient]
    /\ queries = [s \in Callers |-> Idle]
    /\ served = <<>>
    /\ active = who
    /\ law = [stage |-> "off"]

\* One caller at a time, any address book.
Init == InitWith(AddressBooks, {1})

\* ------------------------------------------------------------------------
\* Construction.

\* Server::new, one iteration of `for (phone_number, user_id) in users`; a
\* HashMap is iterated in no particular order.
ServerNewInsert(p) ==
    /\ pc = "new"
    /\ p \in pending
    /\ server' = [server EXCEPT
                    !.users = InsertRow(@, ServerRow(server.secret, p, users[p]))]
    /\ pending' = pending \ {p}
    /\ UNCHANGED <<users, pc, clients, queries, served, active, law>>

\* Server::new returns the Server.
ServerNewReturn ==
    /\ pc = "new"
    /\ pending = {}
    /\ pc' = "serving"
    /\ UNCHANGED <<users, pending, server, clients, queries, served, active, law>>

\* Client::new
ClientNew(c) ==
    /\ c \in active
    /\ ~clients[c].made
    /\ \E secret \in ScalarRandom :
          clients' = [clients EXCEPT ![c] = [made |-> TRUE, secret |-> secret]]
    /\ UNCHANGED <<users, pc, pending, server, queries, served, active, law>>

\* ------------------------------------------------------------------------
\* The four steps of a query.

\* A client that draws a new secret for every request (secret + 1 stands for
\* the next draw).
ClientAfterRekey(client) == [client EXCEPT !.secret = (@ + 1) % GroupOrder]

\* The client after one of its operations (`&self`: it is not changed).
ClientAfter(client) == client

InFlight(s) == queries[s].stage \in {"Requested", "BucketReceived", "Matched"}

\* Whether the query of caller s has taken a step while the query of another
\* caller was in flight.
Mixed(s) == \/ queries[s].stage # "Idle" /\ queries[s].mixed
            \/ \E t \in Callers \ {s} : InFlight(t)

\* The callers whose request, made by the Client of the query of caller s,
\* is out and not processed yet.
Unprocessed(s) ==
    {t \in Callers \ {s} : /\ queries[t].stage \in {"Requested", "BucketReceived"}
                            /\ queries[t].client = queries[s].client}

\* Whether process_bucket is called in the query of caller s after the same
\* Client had the request of another query out together with this one:
\* that one is not processed yet, or it was processed while this one was
\* out.
Batched(s) ==
    \/ Unprocessed(s) # {}
    \/ \E t \in Callers \ {s} : queries[t].stage # "Idle" /\ s \in queries[t].waiting

\* Client::request_phone_number
RequestPhoneNumber(s, c, p) ==
    /\ s \in active
    /\ queries[s].stage = "Idle"
    /\ clients[c].made
    /\ queries' = [queries EXCEPT ![s] =
                     [stage |-> "Requested", client |-> c, phone_number |-> p,
                      msg |-> request_phone_number(clients[c], p),
                      arg |-> p, mixed |-> Mixed(s), batched |-> FALSE,
                      waiting |-> {}]]
    /\ clients' = [clients EXCEPT ![c] = ClientAfter(@)]
    /\ UNCHANGED <<users, pc, pending, server, served, active, law>>

\* Server::find_bucket
FindBucket(s) ==
    /\ pc = "serving"
    /\ queries[s].stage = "Requested"
    /\ LET out == find_bucket(server, queries[s].msg)
       IN /\ queries' = [queries EXCEPT ![s] =
                           IF out.kind = "panic"
                           THEN [@ EXCEPT !.mixed = Mixed(s), !.stage = "Panicked",
                                     !.msg = [op |-> "find_bucket", cause |-> out.cause]]
                           ELSE [@ EXCEPT !.mixed = Mixed(s), !.stage = "BucketReceived", !.msg = out.val]]
          /\ server' = [server EXCEPT
                          !.users = GetBucket(@, queries[s].msg[1]).users]
    /\ UNCHANGED <<users, pc, pending, clients, served, active, law>>

\* Client::process_bucket, called with the phone number p.
ProcessBucketWith(s, p) ==
    /\ queries[s].stage = "BucketReceived"
    /\ LET q == [queries[s] EXCEPT !.arg = p, !.mixed = Mixed(s),
                                   !.batched = Batched(s), !.waiting = Unprocessed(s)]
           out == process_bucket(clients[q.client], q.msg, p)
           ended == IF out.kind = "panic"
                    THEN [q EXCEPT !.stage = "Panicked",
                                   !.msg = [op |-> "process_bucket", cause |-> out.cause]]
                    ELSE IF out.val.some
                    THEN [q EXCEPT !.stage = "Matched", !.msg = out.val.val]
                    ELSE [q EXCEPT !.stage = "Unmatched", !.msg = None]
       IN /\ queries' = [t \in Callers |->
                           IF t = s THEN ended
                           ELSE IF queries[t].stage = "Idle" THEN queries[t]
                           ELSE [queries[t] EXCEPT !.waiting = @ \ {s}]]
          /\ clients' = [clients EXCEPT ![q.client] = ClientAfter(@)]
    /\ UNCHANGED <<users, pc, pending, server, served, active, law>>

\* Client::process_bucket, called with the phone number of the request, as
\* tests::round_trip calls it.
ProcessBucket(s) == ProcessBucketWith(s, queries[s].phone_number)

\* Server::unblind_user_id
UnblindUserId(s) ==
    /\ pc = "serving"
    /\ queries[s].stage = "Matched"
    /\ LET out == unblind_user_id(server, queries[s].msg)
       IN queries' = [queries EXCEPT ![s] =
                        IF out.kind = "panic"
                        THEN [@ EXCEPT !.mixed = Mixed(s), !.stage = "Panicked",
                                     !.msg = [op |-> "unblind_user_id", cause |-> out.cause]]
                        ELSE [@ EXCEPT !.mixed = Mixed(s), !.stage = "Resolved", !.msg = out.val]]
    /\ UNCHANGED <<users, pc, pending, server, clients, served, active, law>>

\* The caller takes the result of a finished query and is free for the next.
Finish(s) ==
    /\ queries[s].stage \in {"Unmatched", "Resolved"}
    /\ Len(served) < MaxServed
    /\ queries' = [queries EXCEPT ![s] = Idle]
    /\ served' = Append(served, [phone_number |-> queries[s].phone_number,
                                  result |-> queries[s].msg])
    /\ UNCHANGED <<users, pc, pending, server, clients, active, law>>

Next ==
    \/ \E p \in PhoneNumbers : ServerNewInsert(p)
    \/ ServerNewReturn
    \/ \E c \in ClientIds : ClientNew(c)
    \/ \E s \in Callers, c \in ClientIds, p \in PhoneNumbers : RequestPhoneNumber(s, c, p)
    \/ \E s \in Callers : FindBucket(s)
    \/ \E s \in Callers : ProcessBucket(s)
    \/ \E s \in Callers : UnblindUserId(s)
    \/ \E s \in Callers : Finish(s)

Spec == Init /\ [][Next]_vars

\* The address book of tests::round_trip: "123-456-7890" and "123-8675309"
\* enrolled, with two user IDs.
TestBooks == {[p \in {"123-456-7890", "123-8675309"} |->
                 IF p = "123-456-7890" THEN <<0, 1>> ELSE <<1, 0>>]}

\* Every caller at once, on the address book of the test.
InitConcurrent == InitWith(TestBooks, Callers)

SpecConcurrent == InitConcurrent /\ [][Next]_vars

\* ------------------------------------------------------------------------
\* A query run alone.

\* The table Server::new builds from an address book.
RECURSIVE BuiltUsers(_, _, _)
BuiltUsers(secret, book, todo) ==
    IF todo = {} THEN EmptyMap
    ELSE LET p == CHOOSE x \in todo : TRUE
         IN InsertRow(BuiltUsers(secret, book, todo \ {p}), ServerRow(secret, p, book[p]))

BuiltServer(secret, book) ==
    [secret |-> secret, users |-> BuiltUsers(secret, book, DOMAIN book)]

Panicked(op, cause) == [stage |-> "Panicked", msg |-> [op |-> op, cause |-> cause]]

\* The four calls of tests::round_trip, one after the other, on a Server and
\* a Client nobody else uses: how the query ends.
Alone(srv, client, phone_number) ==
    LET req == request_phone_number(client, phone_number)
        resp == find_bucket(srv, req)
    IN IF resp.kind = "panic" THEN Panicked("find_bucket", resp.cause)
       ELSE LET found == process_bucket(client, resp.val, phone_number)
            IN IF found.kind = "panic" THEN Panicked("process_bucket", found.cause)
               ELSE IF ~found.val.some THEN [stage |-> "Unmatched", msg |-> None]
               ELSE LET user_id == unblind_user_id(srv, found.val.val)
                    IN IF user_id.kind = "panic"
                       THEN Panicked("unblind_user_id", user_id.cause)
                       ELSE [stage |-> "Resolved", msg |-> user_id.val]

\* ------------------------------------------------------------------------
\* A transport that may hand any EncodedPoint to the next call.

\* The point of the value in flight is replaced by e before the call that
\* takes it: the query point of find_bucket, the double-blinded point of
\* process_bucket, the blinded user ID of unblind_user_id.
Tamper(s, e) ==
    /\ queries[s].stage \in {"Requested", "BucketReceived", "Matched"}
    /\ queries' = [queries EXCEPT ![s].msg =
                     CASE queries[s].stage = "Requested" -> <<@[1], e>>
                       [] queries[s].stage = "BucketReceived" -> <<e, @[2]>>
                       [] queries[s].stage = "Matched" -> e]
    /\ UNCHANGED <<users, pc, pending, server, clients, served, active, law>>

NextTransport ==
    \/ Next
    \/ \E s \in Callers, e \in EncodedPoints : Tamper(s, e)

\* One caller, the address book of the test, any point on the wire.
InitTransport == InitWith(TestBooks, {1})

SpecTransport == InitTransport /\ [][NextTransport]_vars

\* ------------------------------------------------------------------------
\* Blinding and unblinding on their own: any point of the curve under any
\* secret d, and under a second secret d2 in between.

ValidPoints == {ToEncodedPoint(P) : P \in AffinePoints}

InitLaw ==
    /\ users = EmptyMap
    /\ pc = "new"
    /\ pending = {}
    /\ server = [secret |-> 0, users |-> EmptyMap]
    /\ clients = [c \in ClientIds |-> NoClient]
    /\ queries = [s \in Callers |-> Idle]
    /\ served = <<>>
    /\ active = {}
    /\ \E e \in ValidPoints, d \in Scalars, d2 \in Scalars :
          law = [stage |-> "point", point |-> e, d |-> d, d2 |-> d2, val |-> Ret(e)]

LawStep(from, to, out) ==
    /\ law.stage = from
    /\ law.val.kind = "ret"
    /\ law' = [law EXCEPT !.stage = to, !.val = out]
    /\ UNCHANGED <<users, pc, pending, server, clients, queries, served, active>>

\* The point is blinded with d (request_phone_number, find_bucket).
LawBlind == LawStep("point", "blinded", Blind(law.val.val, law.d))

\* The blinded point is unblinded with d (process_bucket, unblind_user_id).
LawUnblind == LawStep("blinded", "unblinded", Unblind(law.val.val, law.d))

\* The blinded point is blinded again with d2 (find_bucket).
LawBlindAgain == LawStep("blinded", "double", Blind(law.val.val, law.d2))

\* The double-blinded point is unblinded with d (process_bucket).
LawUnblindFirst == LawStep("double", "single", Unblind(law.val.val, law.d))

NextLaw == LawBlind \/ LawUnblind \/ LawBlindAgain \/ LawUnblindFirst

SpecLaw == InitLaw /\ [][NextLaw]_vars

\* ------------------------------------------------------------------------
\* encode_to_point on its own, one turn of its loop at a time, and the ways
\* back from the point to the user ID.

InitCodec ==
    /\ users = EmptyMap
    /\ pc = "new"
    /\ pending = {}
    /\ server = [secret |-> 0, users |-> EmptyMap]
    /\ clients = [c \in ClientIds |-> NoClient]
    /\ queries = [s \in Callers |-> Idle]
    /\ served = <<>>
    /\ active = {}
    /\ \E user_id \in Uuids, d \in Scalars :
          law = [stage |-> "encode", user_id |-> user_id, d |-> d, i |-> 0,
                 first |-> None, val |-> None]

CodecStep(from, to, out) ==
    /\ law.stage = from
    /\ law' = [law EXCEPT !.stage = to, !.val = out]
    /\ UNCHANGED <<users, pc, pending, server, clients, queries, served, active>>

\* One turn of the loop of encode_to_point: return the point `buf` decodes
\* to, or add one to the counter.  `i += 1` past the last value of the counter
\* panics in a build that checks overflow and wraps to zero in one that does
\* not.
CodecTry ==
    /\ law.stage = "encode"
    /\ LET p == EncodeTry(law.user_id, law.i)
       IN IF p.some
          THEN law' = [law EXCEPT !.stage = "encoded", !.val = p.val]
          ELSE IF law.i + 1 < CounterLimit
          THEN law' = [law EXCEPT !.i = @ + 1]
          ELSE \E checked \in BOOLEAN :
                  law' = IF checked THEN [law EXCEPT !.stage = "overflow"]
                         ELSE [law EXCEPT !.i = 0]
    /\ UNCHANGED <<users, pc, pending, server, clients, queries, served, active>>

\* encode_to_point is called once more on the same user ID.
CodecAgain ==
    /\ law.stage = "encoded"
    /\ ~law.first.some
    /\ law' = [law EXCEPT !.stage = "encode", !.i = 0, !.first = Some(law.val)]
    /\ UNCHANGED <<users, pc, pending, server, clients, queries, served, active>>

\* `to_encoded_point(true)` of the point.
CodecCompress == CodecStep("encoded", "compressed", ToEncodedPoint(law.val))

\* The user ID is read off the compressed encoding.
CodecDecode == CodecStep("compressed", "decoded", UserIdBytes(law.val))

\* The point is blinded with the secret d of a Server.
CodecBlind == CodecStep("compressed", "blinded", Blind(law.val, law.d).val)

\* Server::unblind_user_id on the blinded point.
CodecUnblind ==
    CodecStep("blinded", "unblinded",
              unblind_user_id([secret |-> law.d, users |-> EmptyMap], law.val))

NextCodec ==
    \/ CodecTry
    \/ CodecAgain
    \/ CodecCompress
    \/ CodecDecode
    \/ CodecBlind
    \/ CodecUnblind

SpecCodec == InitCodec /\ [][NextCodec]_vars

\* ------------------------------------------------------------------------
\* Queries against a Server that Server::new has returned, on the address
\* book of the test, by one caller; a call of a query that can be made is
\* made.
InitServing ==
    /\ users \in TestBooks
    /\ pc = "serving"
    /\ pending = {}
    /\ \E secret \in ScalarRandom : server = BuiltServer(secret, users)
    /\ clients = [c \in ClientIds |-> NoClient]
    /\ queries = [s \in Callers |-> Idle]
    /\ served = <<>>
    /\ active = {1}
    /\ law = [stage |-> "off"]

NextServing ==
    \/ \E c \in ClientIds : ClientNew(c)
    \/ \E s \in Callers, c \in ClientIds, p \in PhoneNumbers : RequestPhoneNumber(s, c, p)
    \/ \E s \in Callers : FindBucket(s)
    \/ \E s \in Callers : ProcessBucket(s)
    \/ \E s \in Callers : UnblindUserId(s)
    \/ \E s \in Callers : Finish(s)

Serve == \E s \in Callers : FindBucket(s) \/ ProcessBucket(s) \/ UnblindUserId(s)

SpecLive == InitServing /\ [][NextServing]_vars /\ WF_vars(Serve)

\* ------------------------------------------------------------------------
\* A caller that may hand process_bucket any phone number, not only the one
\* of the request.
NextArgs ==
    \/ Next
    \/ \E s \in Callers, p \in PhoneNumbers : ProcessBucketWith(s, p)

SpecArgs == Init /\ [][NextArgs]_vars

\* ------------------------------------------------------------------------
\* Properties.

TypeOK ==
    /\ pc \in {"new", "serving"}
    /\ Len(served) <= MaxServed
    /\ \A s \in Callers : queries[s].stage \in Stages

Started(s) == queries[s].stage # "Idle"

\* The query of caller s has run to its end.
Ended(s) == queries[s].stage \in {"Unmatched", "Resolved", "Panicked"}

ClientOf(s) == clients[queries[s].client]

NonzeroSecrets(s) == server.secret # 0 /\ ClientOf(s).secret # 0

Enrolled(p) == p \in DOMAIN users

\* C1 (round trip): with nonzero secrets, the four steps of a query for an
\* enrolled phone number end in Some(u), u the user ID the address book holds
\* for that phone number.
C1_RoundTrip ==
    \A s \in Callers :
        (Ended(s) /\ NonzeroSecrets(s) /\ Enrolled(queries[s].phone_number))
            => /\ queries[s].stage = "Resolved"
               /\ queries[s].msg = Some(users[queries[s].phone_number])

\* A query for an enrolled phone number has been resolved under secrets that
\* blind (neither 0 nor 1), in an address book of two user IDs.
C1_Witness ==
    \E s \in Callers :
        /\ queries[s].stage = "Resolved"
        /\ Enrolled(queries[s].phone_number)
        /\ server.secret > 1
        /\ ClientOf(s).secret > 1
        /\ queries[s].msg = Some(users[queries[s].phone_number])
        /\ \E p \in DOMAIN users : users[p] # users[queries[s].phone_number]

\* process_bucket has been called in the query of caller s.
Processed(s) ==
    \/ queries[s].stage \in {"Matched", "Unmatched", "Resolved"}
    \/ /\ queries[s].stage = "Panicked"
       /\ queries[s].msg.op \in {"process_bucket", "unblind_user_id"}

PrefixOf(p) == HashPrefix(Sha256(p))

\* C2 (negative match): for a phone number that is not enrolled,
\* process_bucket returns None, whatever the bucket of its prefix holds.
C2_NegativeMatch ==
    \A s \in Callers :
        (Processed(s) /\ ~Enrolled(queries[s].phone_number))
            => queries[s].stage = "Unmatched"

\* C3 (prefix collision): once Server::new has returned, two enrolled phone
\* numbers of one prefix have a row each in the bucket of that prefix, and an
\* ended query for either is resolved to its own user ID.
C3_PrefixCollision ==
    \A p1, p2 \in DOMAIN users :
        (pc = "serving" /\ p1 # p2 /\ PrefixOf(p1) = PrefixOf(p2))
            => /\ PrefixOf(p1) \in DOMAIN server.users
               /\ Cardinality(DOMAIN server.users[PrefixOf(p1)])
                    = Cardinality({p \in DOMAIN users : PrefixOf(p) = PrefixOf(p1)})
               /\ \A s \in Callers :
                    (Ended(s) /\ queries[s].phone_number \in {p1, p2})
                        => /\ queries[s].stage = "Resolved"
                           /\ queries[s].msg = Some(users[queries[s].phone_number])

\* C5 (secrets invertible): the secret of a constructed Server and the secret
\* of a constructed Client are nonzero, and no query panics on the inverse of
\* a secret.
C5_SecretsNonzero ==
    /\ pc = "serving" => server.secret # 0
    /\ \A c \in ClientIds : clients[c].made => clients[c].secret # 0
    /\ \A s \in Callers :
          ~(queries[s].stage = "Panicked" /\ queries[s].msg.cause = "invert")

\* C6 (no match is a normal result): find_bucket answers a prefix with no
\* enrolled phone number with an empty bucket, and process_bucket on that
\* bucket returns None and does not fail.
C6_NoMatchIsNormal ==
    \A s \in Callers :
        (Started(s) /\ \A p \in DOMAIN users : PrefixOf(p) # PrefixOf(queries[s].phone_number))
            => /\ queries[s].stage = "BucketReceived" => queries[s].msg[2] = EmptyMap
               /\ Processed(s) => queries[s].stage = "Unmatched"

\* C4 (malformed point): a point that does not decode, handed to find_bucket,
\* process_bucket or unblind_user_id, does not make the call panic.
C4_MalformedIsTypedError ==
    \A s \in Callers :
        ~(queries[s].stage = "Panicked" /\ queries[s].msg.cause = "from_encoded_point")

\* C7 (nothing changes after construction): once Server::new has returned no
\* step changes the Server (its secret, its table), and no step changes a
\* Client that has been constructed.
C7_Immutable ==
    [][/\ pc = "serving" => server' = server
       /\ \A c \in ClientIds : clients[c].made => clients'[c] = clients[c]]_vars

\* find_bucket has answered a prefix the table does not hold, after an
\* earlier query was resolved.
C7_Witness ==
    \E s \in Callers :
        /\ queries[s].stage = "BucketReceived"
        /\ PrefixOf(queries[s].phone_number) \notin DOMAIN server.users
        /\ queries[s].msg[2] = EmptyMap
        /\ \E i \in DOMAIN served : served[i].result.some

HowEnded(s) == [stage |-> queries[s].stage, msg |-> queries[s].msg]

\* What the address book says a query for p gives under nonzero secrets.
Expected(p) ==
    IF Enrolled(p) THEN [stage |-> "Resolved", msg |-> Some(users[p])]
    ELSE [stage |-> "Unmatched", msg |-> None]

\* C8 (concurrent reads): a query whose steps were mixed with the steps of
\* another caller's query ends as it would alone on the Server that
\* Server::new built; under nonzero secrets that is the enrolled user ID, or
\* no user ID for a phone number that is not enrolled.
C8_ConcurrentReads ==
    \A s \in Callers :
        (Ended(s) /\ queries[s].mixed)
            => /\ HowEnded(s) = Alone(BuiltServer(server.secret, users), ClientOf(s),
                                      queries[s].phone_number)
               /\ NonzeroSecrets(s) => HowEnded(s) = Expected(queries[s].phone_number)

\* Two callers with Clients of their own, of different nonzero secrets, have
\* each ended a query that was mixed with the other: one found its user ID,
\* the other found none.
C8_Witness ==
    \E s, t \in Callers :
        /\ s # t
        /\ queries[s].stage = "Resolved" /\ queries[s].mixed
        /\ queries[t].stage = "Unmatched" /\ queries[t].mixed
        /\ queries[s].client # queries[t].client
        /\ ClientOf(s).secret # 0 /\ ClientOf(t).secret # 0
        /\ ClientOf(s).secret # ClientOf(t).secret
        /\ server.secret > 1
        /\ queries[s].msg = Some(users[queries[s].phone_number])

\* C9 (stateless across calls): however many queries the one caller has run
\* to their end before, on the same Server with the same Client, a query ends
\* as it would as the first one; and every result taken so far is the one the
\* address book gives.
C9_Stateless ==
    \A s \in Callers :
        /\ Ended(s) => HowEnded(s) = Alone(BuiltServer(server.secret, users), ClientOf(s),
                                           queries[s].phone_number)
        /\ (Ended(s) /\ NonzeroSecrets(s))
              => \A i \in DOMAIN served :
                    served[i].result = Expected(served[i].phone_number).msg

\* The scenario of the specification: "123-456-7890" and "123-8675309" are
\* enrolled with different user IDs; the first was queried and gave its user
\* ID, "555-000-0000" was queried and gave none, and now the query for
\* "123-8675309" has given the other user ID.
C9_Witness ==
    /\ DOMAIN users = {"123-456-7890", "123-8675309"}
    /\ users["123-456-7890"] # users["123-8675309"]
    /\ Len(served) = 2
    /\ served[1] = [phone_number |-> "123-456-7890", result |-> Some(users["123-456-7890"])]
    /\ served[2] = [phone_number |-> "555-000-0000", result |-> None]
    /\ queries[1].stage = "Resolved"
    /\ queries[1].phone_number = "123-8675309"
    /\ queries[1].msg = Some(users["123-8675309"])
    /\ server.secret > 1
    /\ clients[1].secret > 1

\* C10 (blind/unblind inverse): for a point P and a nonzero secret d, P
\* blinded with d and unblinded with d has the encoding of P; and P blinded
\* with d, blinded with d2 and unblinded with d has the encoding of P blinded
\* with d2, which is the key Server::new stores for P under the secret d2.
C10_InverseLaw ==
    law.stage \in {"unblinded", "single"} /\ law.d # 0
        => /\ law.stage = "unblinded" => law.val = Ret(law.point)
           /\ law.stage = "single"
                => law.val = Ret(ToEncodedPoint(
                                   PointMul(FromEncodedPoint(law.point).val, law.d2)))

\* A point other than the identity has been blinded with a secret d that
\* blinds, blinded again with another secret that blinds, and unblinded with d.
C10_Witness ==
    /\ law.stage = "single"
    /\ law.point # <<TagIdentity>>
    /\ law.d > 1 /\ law.d2 > 1 /\ law.d # law.d2
    /\ law.val = Ret(ToEncodedPoint(PointMul(FromEncodedPoint(law.point).val, law.d2)))
    /\ law.val.val # law.point


\* C11 (encode/decode stability): at whatever counter the loop of
\* encode_to_point stops for a user ID u, the bytes 1..17 of the compressed
\* encoding of the point are u, so reading the user ID off the encoding gives
\* u, and so does unblind_user_id of the point blinded by an invertible
\* secret; a second call of encode_to_point on u gives the same point; the
\* counter never runs out.
C11_EncodeDecode ==
    /\ law.stage = "encoded"
         => /\ SubSeq(ToEncodedPoint(law.val), 2, 1 + UuidLen) = law.user_id
            /\ law.first.some => law.val = law.first.val
    /\ law.stage = "decoded" => law.val = Ret(Some(law.user_id))
    /\ (law.stage = "unblinded" /\ law.d # 0) => law.val = Ret(Some(law.user_id))
    /\ law.stage # "overflow"

\* A user ID whose loop stopped past the counter 0, encoded twice, has been
\* read back off the compressed encoding.
C11_Witness ==
    /\ law.stage = "decoded"
    /\ law.i > 0
    /\ law.first.some
    /\ law.val = Ret(Some(law.user_id))


\* C12 (Client and Server derive the same values): the request of a query for
\* p is what request_phone_number gives for p on every call; once Server::new
\* has returned and p is enrolled, the prefix of the request is a prefix of
\* the table, its bucket holds the row Server::new made for p, and the point
\* of the request blinded by the Server is the key of that row blinded by the
\* Client: both hashed p to the same point.
C12_SameDerivation ==
    \A s \in Callers :
        queries[s].stage = "Requested"
            => LET q == queries[s]
                   p == q.phone_number
               IN /\ q.msg = request_phone_number(ClientOf(s), p)
                  /\ (pc = "serving" /\ Enrolled(p))
                        => LET row == ServerRow(server.secret, p, users[p])
                           IN /\ q.msg[1] = row.prefix
                              /\ q.msg[1] \in DOMAIN server.users
                              /\ row.phone_number \in DOMAIN server.users[q.msg[1]]
                              /\ server.users[q.msg[1]][row.phone_number] = row.user_id
                              /\ Blind(row.phone_number, ClientOf(s).secret)
                                   = Blind(q.msg[2], server.secret)

\* A second request for an enrolled phone number, after the first was
\* resolved, under secrets that blind; the bucket of its prefix holds the row
\* of another phone number too.
C12_Witness ==
    \E s \in Callers :
        /\ queries[s].stage = "Requested"
        /\ pc = "serving"
        /\ Enrolled(queries[s].phone_number)
        /\ server.secret > 1
        /\ ClientOf(s).secret > 1
        /\ \E i \in DOMAIN served :
              /\ served[i].phone_number = queries[s].phone_number
              /\ served[i].result.some
        /\ Cardinality(DOMAIN server.users[queries[s].msg[1]]) = 2


\* unblind_user_id has been called in the query of caller s on a point that
\* decodes.
Unblinded(s) ==
    \/ queries[s].stage = "Resolved"
    \/ /\ queries[s].stage = "Panicked"
       /\ queries[s].msg.op = "unblind_user_id"
       /\ queries[s].msg.cause # "from_encoded_point"

\* C13 (unblind_user_id is total on valid points): on a Server whose secret
\* has an inverse, unblind_user_id of a point that decodes, whether or not the
\* protocol produced it, returns Some user ID: it neither returns None nor
\* fails.
C13_UnblindTotal ==
    \A s \in Callers :
        (Unblinded(s) /\ server.secret # 0)
            => /\ queries[s].stage = "Resolved"
               /\ queries[s].msg.some


\* The rows of the table: (prefix, key) pairs.
TableRows(table) == {<<prefix, key>> \in Prefixes \X EncodedPoints :
                        prefix \in DOMAIN table /\ key \in DOMAIN table[prefix]}

\* C14 (the table after construction): once Server::new has returned, for
\* every enrolled (p, u) the bucket of prefix(p) maps H(p)*d_s to
\* encode(u)*d_s*h(p), h(p) the hash of p reduced to a nonzero scalar; the
\* table has one row for each enrolled phone number, and no prefix without a
\* row.
C14_TableContents ==
    pc = "serving"
        => /\ \A p \in DOMAIN users :
                LET prefix == HashPrefix(Sha256(p))
                    key == ToEncodedPoint(PointMul(HashToCurve(p), server.secret))
                    h == ReduceNonzeroBytes(Sha256(p))
                    value == ToEncodedPoint(
                                 PointMul(encode_to_point(users[p]),
                                          ScalarMul(server.secret, h)))
                IN /\ prefix \in DOMAIN server.users
                   /\ key \in DOMAIN server.users[prefix]
                   /\ server.users[prefix][key] = value
           /\ Cardinality(TableRows(server.users)) = Cardinality(DOMAIN users)
           /\ DOMAIN server.users = {HashPrefix(Sha256(p)) : p \in DOMAIN users}
           /\ \A prefix \in DOMAIN server.users : server.users[prefix] # EmptyMap


\* The point process_bucket has returned in the query of caller s, a query
\* for an enrolled phone number.
Hit(s) == queries[s].stage = "Matched" /\ Enrolled(queries[s].phone_number)

EncodedUserId(p) == ToEncodedPoint(encode_to_point(users[p]))

RequestsTable ==
    [p \in PhoneNumbers |->
        {request_phone_number([made |-> TRUE, secret |-> d], p) : d \in Scalars \ {0}}]

Requests(p) == RequestsTable[p]

\* C16 (request privacy within a bucket): a request made for p under a
\* nonzero client secret is a request that could have been made for any
\* phone number of the same prefix, and the requests that can be made for
\* the two are the same.
C16_RequestPrivacy ==
    \A s \in Callers :
        (queries[s].stage = "Requested" /\ ClientOf(s).secret # 0)
            => \A p \in PhoneNumbers :
                  (PrefixOf(p) = PrefixOf(queries[s].phone_number)
                      /\ HashToCurve(p) # Identity
                      /\ HashToCurve(queries[s].phone_number) # Identity)
                      => /\ queries[s].msg \in Requests(p)
                         /\ Requests(p) = Requests(queries[s].phone_number)

\* A request under a client secret that blinds, for a phone number that
\* shares its prefix with another.
C16_Witness ==
    \E s \in Callers :
        /\ queries[s].stage = "Requested"
        /\ ClientOf(s).secret > 1
        /\ \E p \in PhoneNumbers \ {queries[s].phone_number} :
              /\ PrefixOf(p) = PrefixOf(queries[s].phone_number)
              /\ queries[s].msg \in Requests(p)


\* The steps of the state machine of a query; from its last state the caller
\* goes on to its next query.
StageSteps ==
    {<<"Idle", "Requested">>, <<"Requested", "BucketReceived">>,
     <<"BucketReceived", "Matched">>, <<"BucketReceived", "Unmatched">>,
     <<"Matched", "Resolved">>, <<"Unmatched", "Idle">>, <<"Resolved", "Idle">>}

Forward(s) ==
    \/ queries'[s].stage = queries[s].stage
    \/ <<queries[s].stage, queries'[s].stage>> \in StageSteps

\* C17 (the state machine of a query): a query goes from Idle to Requested,
\* to BucketReceived, to Matched or Unmatched, and from Matched to Resolved,
\* by no other step; and a query that was started reaches Resolved or
\* Unmatched.
C17_QueryStateMachine ==
    /\ [][\A s \in Callers : Forward(s)]_vars
    /\ \A s \in Callers :
          (queries[s].stage = "Requested")
              ~> (queries[s].stage \in {"Unmatched", "Resolved"})


\* C18 (one Client, several queries in flight): a query whose response was
\* processed after its Client had another request out together with it ends
\* as it would alone on the Server that Server::new built, with the secret
\* the Client has now; under nonzero secrets that is what the address book
\* gives.
C18_SharedClient ==
    \A s \in Callers :
        (Ended(s) /\ queries[s].batched)
            => /\ HowEnded(s) = Alone(BuiltServer(server.secret, users), ClientOf(s),
                                      queries[s].phone_number)
               /\ NonzeroSecrets(s) => HowEnded(s) = Expected(queries[s].phone_number)

\* One Client made the requests for two phone numbers before it processed
\* either response; both queries have ended, one resolved to its user ID and
\* the other to the other user ID or to none, under secrets that blind.
C18_Witness ==
    \E s, t \in Callers :
        /\ s # t
        /\ queries[s].stage = "Resolved" /\ queries[s].batched
        /\ queries[t].stage \in {"Resolved", "Unmatched"} /\ queries[t].batched
        /\ queries[s].client = queries[t].client
        /\ queries[s].phone_number # queries[t].phone_number
        /\ served = <<>>
        /\ server.secret > 1
        /\ ClientOf(s).secret > 1
        /\ queries[s].msg = Some(users[queries[s].phone_number])


\* C19 (the scalar of the hash is never zero): every digest reduces to a
\* nonzero scalar, no value stored in the table is the identity, and
\* process_bucket, once it has inverted the client secret, does not fail on
\* the inverse of the scalar of the hash.
C19_HashScalarNonzero ==
    /\ \A hash \in Digests : ReduceNonzeroBytes(hash) \in 1 .. (GroupOrder - 1)
    /\ \A prefix \in DOMAIN server.users :
          \A key \in DOMAIN server.users[prefix] :
              server.users[prefix][key] # ToEncodedPoint(Identity)
    /\ \A s \in Callers :
          (queries[s].stage = "Panicked" /\ queries[s].msg.op = "process_bucket"
              /\ queries[s].msg.cause = "invert")
              => ClientOf(s).secret = 0


\* C20 (hit or miss does not depend on the phone number argument): when the
\* response to a request for an enrolled p with user ID u is processed with
\* another phone number q, process_bucket returns Some point,
\* encode(u)*d_s*h(p)*h(q)^-1, and not None, and unblind_user_id then
\* returns Some user ID.
C20_ArgumentIgnored ==
    \A s \in Callers :
        (Processed(s) /\ Enrolled(queries[s].phone_number)
            /\ queries[s].arg # queries[s].phone_number)
            => LET p == queries[s].phone_number
                   h == ScalarMul(ReduceNonzeroBytes(Sha256(p)),
                                  ScalarInvert(ReduceNonzeroBytes(Sha256(queries[s].arg))).val)
                   point == PointMul(encode_to_point(users[p]),
                                     ScalarMul(server.secret, h))
               IN /\ queries[s].stage \in {"Matched", "Resolved"}
                  /\ queries[s].stage = "Matched" => queries[s].msg = ToEncodedPoint(point)
                  /\ queries[s].stage = "Resolved" => queries[s].msg.some
====
